---- MODULE Spec2Model ----
(***************************************************************************)
(* BaseController (src/src/controller/BaseController.ts) of the tsReport   *)
(* application, with the routes of src/src/manifest.json.                  *)
(*                                                                         *)
(* A JavaScript string is the sequence of its characters, each a string of *)
(* length one, so that indexOf, lastIndexOf, substr, split, join, replace  *)
(* and toLowerCase are computed character by character as the built-ins    *)
(* compute them (for the letters A-Z, a-z, digits, "." and "-").           *)
(*                                                                         *)
(* The host framework is modelled by its contract only: Controller.create  *)
(* and Fragment.load return promises that settle later (resolve or         *)
(* reject), sap.ui.require with a dependency array returns undefined and   *)
(* runs its callback later, setTimeout runs its callback later, and a      *)
(* Dialog has open(), close() and isOpen().                                *)
(***************************************************************************)
EXTENDS Integers, Sequences, FiniteSets, TLC

\* ------------------------------------------------------------------ bounds
\* openDialog calls in a run
MaxOpenCalls == 2

\* ------------------------------------------------------- values and inputs
Undefined == "undefined"

\* the controllers that extend BaseController, one per view, named by the id
\* of their view
ViewIds == {"app", "homeView"}

\* this.getView().getViewName(): "com.ts.tsReport.view.App" and
\* "com.ts.tsReport.view.Home"
getViewName(this) ==
    IF this = "app"
    THEN <<"c", "o", "m", ".", "t", "s", ".", "t", "s", "R", "e", "p", "o", "r", "t", ".", "v", "i", "e", "w", ".", "A", "p", "p">>
    ELSE <<"c", "o", "m", ".", "t", "s", ".", "t", "s", "R", "e", "p", "o", "r", "t", ".", "v", "i", "e", "w", ".", "H", "o", "m", "e">>

\* this.getView().getId(): "app" and "homeView"
getId(this) ==
    IF this = "app" THEN <<"a", "p", "p">>
                    ELSE <<"h", "o", "m", "e", "V", "i", "e", "w">>

\* the sName arguments tried: the bare name "Confirm", and the same fragment
\* by its full name "com.ts.tsReport.view.fragments.Confirm"
FragmentNames ==
    { <<"C", "o", "n", "f", "i", "r", "m">>,
      <<"c", "o", "m", ".", "t", "s", ".", "t", "s", "R", "e", "p", "o", "r", "t", ".", "v", "i", "e", "w", ".", "f", "r", "a", "g", "m", "e", "n", "t", "s", ".", "C", "o", "n", "f", "i", "r", "m">> }

\* the (model, updateModelAlways) arguments tried: both omitted, a model with
\* the flag false, a model with the flag true
ModelArgs == { <<Undefined, Undefined>>, <<"oModel", "false">>, <<"oModel", "true">> }

\* JavaScript truthiness of the argument values above
Truthy(x) == x \notin {Undefined, "false"}

\* what Controller.create can resolve with: a fragment controller that
\* defines onBeforeShow, or one that does not
FragmentControllers == {"fragmentController", "plainController"}

hasOnBeforeShow(c) == c = "fragmentController"

\* routes declared in manifest.json
Routes == {"home"}

\* ----------------------------------------------------- registry and values
\* the values a registry entry's fragment field takes
EmptyObject   == [kind |-> "{}", dlg |-> 0]
UndefinedFrag == [kind |-> Undefined, dlg |-> 0]
DialogOf(n)   == [kind |-> "Dialog", dlg |-> n]

\* ------------------------------------------------------ string operations
UpperCase == <<"A", "B", "C", "D", "E", "F", "G", "H", "I", "J", "K", "L", "M",
               "N", "O", "P", "Q", "R", "S", "T", "U", "V", "W", "X", "Y", "Z">>
LowerCase == <<"a", "b", "c", "d", "e", "f", "g", "h", "i", "j", "k", "l", "m",
               "n", "o", "p", "q", "r", "s", "t", "u", "v", "w", "x", "y", "z">>

\* s.toLowerCase()
toLowerCase(s) ==
    [ i \in 1..Len(s) |->
        IF \E k \in 1..26 : UpperCase[k] = s[i]
        THEN LowerCase[CHOOSE k \in 1..26 : UpperCase[k] = s[i]]
        ELSE s[i] ]

\* the positions (from 0) at which pat occurs in s
occurrences(s, pat) ==
    { i \in 0..(Len(s) - Len(pat)) : SubSeq(s, i + 1, i + Len(pat)) = pat }

\* s.indexOf(pat)
indexOf(s, pat) ==
    LET at == occurrences(s, pat)
    IN  IF at = {} THEN -1 ELSE CHOOSE i \in at : \A j \in at : i <= j

\* s.lastIndexOf(pat)
lastIndexOf(s, pat) ==
    LET at == occurrences(s, pat)
    IN  IF at = {} THEN -1 ELSE CHOOSE i \in at : \A j \in at : i >= j

\* s.substr(start)
substr(s, start) == SubSeq(s, start + 1, Len(s))

\* s.split(sep) for a separator of one character
RECURSIVE split(_, _)
split(s, sep) ==
    LET i == indexOf(s, sep)
    IN  IF i = -1 THEN <<s>>
        ELSE <<SubSeq(s, 1, i)>> \o split(substr(s, i + 1), sep)

\* a.join(sep)
RECURSIVE join(_, _)
join(a, sep) ==
    IF a = <<>> THEN <<>>
    ELSE IF Len(a) = 1 THEN a[1]
    ELSE a[1] \o sep \o join(Tail(a), sep)

\* aViewName.pop(): the array without its last element
pop(a) == SubSeq(a, 1, Len(a) - 1)

\* s.replace(pat, by): the first occurrence only
replace(s, pat, by) ==
    LET i == indexOf(s, pat)
    IN  IF i = -1 THEN s
        ELSE SubSeq(s, 1, i) \o by \o substr(s, i + Len(pat))

Dot == <<".">>
Fragments == <<"f", "r", "a", "g", "m", "e", "n", "t", "s">>

\* sViewPath.toLowerCase().indexOf("fragments") > 0
inFragmentsFolder(sViewPath) == indexOf(toLowerCase(sViewPath), Fragments) > 0

\* sViewPath.replace("view", "controller")
replaceView(sViewPath) ==
    replace(sViewPath, <<"v", "i", "e", "w">>,
            <<"c", "o", "n", "t", "r", "o", "l", "l", "e", "r">>)

\* sName.indexOf(".") > 0
hasDot(sName) == indexOf(sName, Dot) > 0

\* sName after lines 147-153: sName.substr(sName.lastIndexOf(".") + 1) in the
\* first branch, sName itself in the second
shortName(sName) ==
    IF hasDot(sName) THEN substr(sName, lastIndexOf(sName, Dot) + 1) ELSE sName

\* sViewPath after lines 147-162, with its final "."
viewPath(this, sName) ==
    LET aViewName == IF hasDot(sName) THEN split(sName, Dot)
                                      ELSE split(getViewName(this), Dot)
        sViewPath == join(pop(aViewName), Dot)
    IN  IF inFragmentsFolder(sViewPath) THEN sViewPath \o Dot
        ELSE sViewPath \o Dot \o Fragments \o Dot

\* var id = this.getView().getId() + "-" + sName
fragmentId(this, sName) == getId(this) \o <<"-">> \o shortName(sName)

\* the ids the calls above can produce
Ids == { fragmentId(v, n) : v \in ViewIds, n \in FragmentNames }

\* ------------------------------------------------------------------ state
\* no property of that name in _fragments
NoEntry == [exists |-> FALSE, fragment |-> UndefinedFrag, controller |-> Undefined]

VARIABLES
    fragments,      \* _fragments: id -> entry
    tasks,          \* pending asynchronous work, one record per chain
    isOpen,         \* the Dialogs (by number) whose isOpen() is true
    dependents,     \* view id -> Dialogs added with addDependent
    calls,          \* counters of framework calls, per fragment id
    nOpen,          \* openDialog calls made
    last            \* what the last step did

vars == <<fragments, tasks, isOpen, dependents, calls, nOpen, last>>

Counters == {"openDialog", "Controller.create", "Fragment.load", "setModel",
             "onBeforeShow", "open", "close"}

Bump(c, id, what) == [c EXCEPT ![id][what] = @ + 1]

Init ==
    /\ fragments = [id \in Ids |-> NoEntry]
    /\ tasks = {}
    /\ isOpen = {}
    /\ dependents = [v \in ViewIds |-> {}]
    /\ calls = [id \in Ids |-> [k \in Counters |-> 0]]
    /\ nOpen = 0
    /\ last = [op |-> "init"]

\* ------------------------------------------------------------- openDialog
\* a test of the loaded Dialog instead of the entry
hasLoadedDialog(id) == fragments[id].exists /\ fragments[id].fragment.kind = "Dialog"

\* the test of line 165 is on the entry: !_fragments[id]
hasEntry(id) == fragments[id].exists

openDialog(this, sName, model, updateModelAlways) ==
    LET id == fragmentId(this, sName)
        sViewPath == viewPath(this, sName)
        target == fragments[id].fragment
    IN
    /\ nOpen < MaxOpenCalls
    /\ nOpen' = nOpen + 1
    /\ UNCHANGED dependents
    /\ IF ~hasEntry(id)
       THEN /\ fragments' = [fragments EXCEPT ![id] =
                   [exists |-> TRUE, fragment |-> EmptyObject, controller |-> "{}"]]
            /\ tasks' = tasks \cup
                   {[n |-> nOpen + 1, id |-> id, this |-> this,
                     stage |-> "Controller.create",
                     controllerName |-> replaceView(sViewPath) \o shortName(sName),
                     name |-> sViewPath \o shortName(sName),
                     oController |-> Undefined, rejected |-> FALSE,
                     model |-> model, updateModelAllways |-> updateModelAlways]}
            /\ calls' = Bump(Bump(calls, id, "openDialog"), id, "Controller.create")
            /\ isOpen' = isOpen
            /\ last' = [op |-> "openDialog", id |-> id, this |-> this, model |-> model,
                        updateModelAlways |-> updateModelAlways, found |-> FALSE,
                        target |-> UndefinedFrag, threw |-> FALSE, setModel |-> FALSE]
       ELSE \* _fragments[id].fragment.open()
            /\ UNCHANGED <<fragments, tasks>>
            /\ IF target.kind = "Dialog"
               THEN /\ calls' = Bump(Bump(calls, id, "openDialog"), id, "open")
                    /\ isOpen' = isOpen \cup {target.dlg}
               ELSE \* TypeError: {} has no open, undefined has no properties
                    /\ calls' = Bump(calls, id, "openDialog")
                    /\ isOpen' = isOpen
            /\ last' = [op |-> "openDialog", id |-> id, this |-> this, model |-> model,
                        updateModelAlways |-> updateModelAlways, found |-> TRUE,
                        target |-> target, threw |-> target.kind # "Dialog",
                        setModel |-> FALSE]

OpenDialog ==
    \E this \in ViewIds, sName \in FragmentNames, args \in ModelArgs :
        openDialog(this, sName, args[1], args[2])

\* ------------------------------------------------- createDialogFragment
\* lines 299-335: the entry is replaced by { fragment: <what sap.ui.require
\* returned> }, which is undefined for a dependency array; the entry has no
\* controller property any more.  The callback given to sap.ui.require runs
\* later.
createDialogFragment(t, oController, wasRejected) ==
    /\ fragments' = [fragments EXCEPT ![t.id] =
           [exists |-> TRUE, fragment |-> UndefinedFrag, controller |-> Undefined]]
    /\ tasks' = (tasks \ {t}) \cup
           {[t EXCEPT !.stage = "sap.ui.require", !.oController = oController,
                      !.rejected = wasRejected]}

\* the controller the catch handler binds the fragment to (lines 185-189)
fallbackController(this) == this

\* Controller.create resolved: the then handler of lines 172-183
ControllerCreated ==
    \E t \in tasks, oController \in FragmentControllers :
        /\ t.stage = "Controller.create"
        /\ createDialogFragment(t, oController, FALSE)
        /\ last' = [op |-> "Controller.create.then", id |-> t.id, n |-> t.n,
                    unhandledRejection |-> FALSE]
        /\ UNCHANGED <<isOpen, dependents, calls, nOpen>>

\* Controller.create rejected: the catch handler of lines 184-195
ControllerRejected ==
    \E t \in tasks :
        /\ t.stage = "Controller.create"
        /\ createDialogFragment(t, fallbackController(t.this), TRUE)
        /\ last' = [op |-> "Controller.create.catch", id |-> t.id, n |-> t.n,
                    unhandledRejection |-> FALSE]
        /\ UNCHANGED <<isOpen, dependents, calls, nOpen>>

\* the callback of sap.ui.require runs and calls Fragment.load (lines 302-308)
RequireCallback ==
    \E t \in tasks :
        /\ t.stage = "sap.ui.require"
        /\ tasks' = (tasks \ {t}) \cup {[t EXCEPT !.stage = "Fragment.load"]}
        /\ calls' = Bump(calls, t.id, "Fragment.load")
        /\ last' = [op |-> "Fragment.load", id |-> t.id, n |-> t.n,
                    this |-> t.this, controller |-> t.oController]
        /\ UNCHANGED <<fragments, isOpen, dependents, nOpen>>

\* if (model && updateModelAllways), line 317
shouldSetModel(model, updateModelAllways) == Truthy(model) /\ Truthy(updateModelAllways)

\* the test without its comparison with this
isController(oController, this) == oController # Undefined

\* if (oController && oController !== this), line 320
shouldCallOnBeforeShow(oController, this) ==
    oController # Undefined /\ oController # this

\* Fragment.load resolved with the Dialog: the then handler of lines 309-332.
\* A controller without onBeforeShow makes line 321 throw, and the timer of
\* line 329 is then never set.
FragmentLoaded ==
    \E t \in tasks :
        LET setsModel == shouldSetModel(t.model, t.updateModelAllways)
            callsHook == shouldCallOnBeforeShow(t.oController, t.this)
            threw     == callsHook /\ ~hasOnBeforeShow(t.oController)
            c1 == IF setsModel THEN Bump(calls, t.id, "setModel") ELSE calls
            c2 == IF callsHook /\ ~threw THEN Bump(c1, t.id, "onBeforeShow") ELSE c1
        IN
        /\ t.stage = "Fragment.load"
        /\ fragments' = [fragments EXCEPT ![t.id].fragment = DialogOf(t.n),
                                          ![t.id].controller = t.oController]
        /\ dependents' = [dependents EXCEPT ![t.this] = @ \cup {t.n}]
        /\ calls' = c2
        /\ tasks' = IF threw THEN tasks \ {t}
                    ELSE (tasks \ {t}) \cup {[t EXCEPT !.stage = "setTimeout"]}
        /\ last' = [op |-> "Fragment.load.then", id |-> t.id, n |-> t.n,
                    this |-> t.this, rejected |-> t.rejected, model |-> t.model,
                    updateModelAlways |-> t.updateModelAllways,
                    setModel |-> setsModel, onBeforeShow |-> callsHook,
                    unhandledRejection |-> threw]
        /\ UNCHANGED <<isOpen, nOpen>>

\* Fragment.load rejected: no handler, the chain ends and the entry keeps its
\* undefined fragment
FragmentLoadFailed ==
    \E t \in tasks :
        /\ t.stage = "Fragment.load"
        /\ tasks' = tasks \ {t}
        /\ last' = [op |-> "Fragment.load.rejected", id |-> t.id, n |-> t.n,
                    unhandledRejection |-> TRUE]
        /\ UNCHANGED <<fragments, isOpen, dependents, calls, nOpen>>

\* the timer of lines 329-331 fires: fragment.open()
Timeout ==
    \E t \in tasks :
        /\ t.stage = "setTimeout"
        /\ tasks' = tasks \ {t}
        /\ isOpen' = isOpen \cup {t.n}
        /\ calls' = Bump(calls, t.id, "open")
        /\ last' = [op |-> "setTimeout", id |-> t.id, n |-> t.n,
                    this |-> t.this, rejected |-> t.rejected]
        /\ UNCHANGED <<fragments, dependents, nOpen>>

\* ---------------------------------------------------------- closeFragments
\* the open fragments of the calling controller's view only
fragmentsOfOwnView(this) ==
    { f \in Ids : /\ fragments[f].exists
                  /\ fragments[f].fragment.kind = "Dialog"
                  /\ fragments[f].fragment.dlg \in dependents[this]
                  /\ fragments[f].fragment.dlg \in isOpen }

\* the entries whose fragment passes the three tests of lines 211-213
fragmentsToClose(this) ==
    { f \in Ids : /\ hasEntry(f)
                  /\ fragments[f].fragment.kind # Undefined
                  /\ fragments[f].fragment.kind = "Dialog"
                  /\ fragments[f].fragment.dlg \in isOpen }

RECURSIVE BumpAll(_, _, _)
BumpAll(c, ids, what) ==
    IF ids = {} THEN c
    ELSE LET f == CHOOSE x \in ids : TRUE
         IN  BumpAll(Bump(c, f, what), ids \ {f}, what)

closeFragments(this) ==
    LET closing == fragmentsToClose(this)
        dialogs == { fragments[f].fragment.dlg : f \in closing }
    IN
    /\ isOpen' = isOpen \ dialogs
    /\ calls' = BumpAll(calls, closing, "close")
    /\ last' = [op |-> "closeFragments", this |-> this, wasOpen |-> isOpen,
                closed |-> dialogs]
    /\ UNCHANGED <<fragments, tasks, dependents, nOpen>>

CloseFragments == \E this \in ViewIds : closeFragments(this)

\* ---------------------------------------------------------------- onNavBack
\* what History.getInstance().getPreviousHash() can return: no previous hash,
\* or a hash (here the empty hash of the start page)
PreviousHashes == {Undefined, ""}

\* the route of line 123
masterRoute == "appHome"

onNavBack(this, sPreviousHash) ==
    /\ last' = IF sPreviousHash # Undefined
               THEN [op |-> "onNavBack", previousHash |-> sPreviousHash,
                     back |-> 1, navTo |-> <<>>]
               ELSE [op |-> "onNavBack", previousHash |-> sPreviousHash,
                     back |-> 0,
                     navTo |-> <<[route |-> masterRoute, replace |-> TRUE]>>]
    /\ UNCHANGED <<fragments, tasks, isOpen, dependents, calls, nOpen>>

OnNavBack == \E this \in ViewIds, h \in PreviousHashes : onNavBack(this, h)

\* --------------------------------------------------------------------- spec
Next ==
    \/ OpenDialog
    \/ ControllerCreated
    \/ ControllerRejected
    \/ RequireCallback
    \/ FragmentLoaded
    \/ FragmentLoadFailed
    \/ Timeout
    \/ CloseFragments
    \/ OnNavBack

Spec == Init /\ [][Next]_vars

\* timers and the callbacks of loaded modules are run by the event loop
FairSpec == Spec /\ WF_vars(Timeout) /\ WF_vars(RequireCallback)

\* ------------------------------------------------------------------- claims
\* the Dialogs the registry holds
registryDialogs ==
    { fragments[f].fragment.dlg :
        f \in { g \in Ids : fragments[g].exists /\ fragments[g].fragment.kind = "Dialog" } }

\* C1: for every fragment id, Controller.create is called at most once and
\* Fragment.load at most once, however many openDialog calls are made for it;
\* a load belongs to a creation, and at most one chain is pending per id.
C1_LazyCached ==
    \A id \in Ids :
        /\ calls[id]["Controller.create"] <= 1
        /\ calls[id]["Fragment.load"] <= calls[id]["Controller.create"]
        /\ calls[id]["openDialog"] >= 1 => calls[id]["Controller.create"] = 1
        /\ Cardinality({ t \in tasks : t.id = id }) <= 1

\* C1 witness: two openDialog calls for one id, reached by both spellings of
\* the name, and the fragment was loaded once.
C1_Witness ==
    \E id \in Ids :
        /\ calls[id]["openDialog"] >= 2
        /\ calls[id]["Fragment.load"] = 1
        /\ last.op = "openDialog" /\ last.id = id /\ last.found

\* C2: as documented, a model passed with updateModelAlways = true is set at
\* every opening (also by a later openDialog call that opens the loaded
\* Dialog), and a model passed is set at the first opening whatever the flag.
C2_ModelSetAsDocumented ==
    /\ (last.op = "openDialog" /\ last.found /\ ~last.threw
            /\ Truthy(last.model) /\ Truthy(last.updateModelAlways))
         => last.setModel
    /\ (last.op = "Fragment.load.then" /\ Truthy(last.model)) => last.setModel

\* C3: right after closeFragments no Dialog held in the registry is open, and
\* close() went only to Dialogs that were open.
C3_CloseFragmentsClosesAll ==
    last.op = "closeFragments" =>
        /\ registryDialogs \cap isOpen = {}
        /\ last.closed \subseteq last.wasOpen

\* C3 witness: closeFragments called by one view's controller closed an open
\* Dialog registered by the other view's controller.
C3_Witness ==
    /\ last.op = "closeFragments"
    /\ \E v \in ViewIds \ {last.this} : dependents[v] \cap last.closed # {}

\* C4: an openDialog call that finds an entry calls open() on the loaded
\* Dialog, never on the placeholder or on the undefined fragment, and does not
\* throw.
C4_OpenOnlyOnLoadedDialog ==
    (last.op = "openDialog" /\ last.found) =>
        (last.target.kind = "Dialog" /\ ~last.threw)

\* the chain of a fragment id, after Controller.create rejected, at a stage
rejectedAt(id, stage) ==
    \E t \in tasks : t.id = id /\ t.rejected /\ t.stage = stage

\* C5, the part about states: after a rejection the chain carries the calling
\* controller, the catch handler leaves no unhandled rejection and the
\* fragment is still to be loaded, Fragment.load gets the calling controller,
\* and when the load resolves the entry records the calling controller,
\* onBeforeShow is not invoked and nothing is thrown.
C5_FallbackState ==
    /\ \A t \in tasks : t.rejected => t.oController = t.this
    /\ last.op = "Controller.create.catch" =>
          /\ ~last.unhandledRejection
          /\ rejectedAt(last.id, "sap.ui.require")
    /\ (last.op = "Fragment.load" /\ rejectedAt(last.id, "Fragment.load")) =>
          last.controller = last.this
    /\ (last.op = "Fragment.load.then" /\ last.rejected) =>
          /\ fragments[last.id].controller = last.this
          /\ fragments[last.id].fragment = DialogOf(last.n)
          /\ ~last.onBeforeShow
          /\ ~last.unhandledRejection
          /\ calls[last.id]["onBeforeShow"] = 0

\* C5: if Controller.create rejects, the fragment is still loaded with the
\* calling controller, which the entry records, onBeforeShow is not invoked,
\* the rejection is handled, and once Fragment.load has resolved the timer
\* opens the Dialog.
C5_FallbackOpens ==
    /\ []C5_FallbackState
    /\ \A id \in Ids :
          /\ rejectedAt(id, "sap.ui.require")
                ~> (last.op = "Fragment.load" /\ last.id = id)
          /\ rejectedAt(id, "setTimeout")
                ~> (last.op = "setTimeout" /\ last.id = id /\ last.n \in isOpen)

\* C5 witness: the timer has just opened a Dialog whose controller is the
\* calling controller because Controller.create rejected.
C5_Witness ==
    /\ last.op = "setTimeout" /\ last.rejected
    /\ last.n \in isOpen
    /\ fragments[last.id].controller = last.this
    /\ calls[last.id]["Fragment.load"] = 1

\* C6: with a previous hash onNavBack goes back once and does not navigate;
\* without one it does not go back and navigates once, replacing the history
\* entry, to a route that manifest.json declares.
C6_NavBackToDeclaredRoute ==
    last.op = "onNavBack" =>
        IF last.previousHash # Undefined
        THEN last.back = 1 /\ last.navTo = <<>>
        ELSE /\ last.back = 0
             /\ Len(last.navTo) = 1
             /\ last.navTo[1].replace
             /\ last.navTo[1].route \in Routes
====
